---- MODULE Spec2Model ----
(***************************************************************************)
(* Model of src/app.py: a LINE webhook that relays a user's text to a      *)
(* chat-completion endpoint and pushes the answer back to the user.        *)
(*                                                                         *)
(* A Python str is modelled as a sequence of characters, one element per   *)
(* code point (len() counts code points).  A character is written as a     *)
(* one-element token: ASCII characters as themselves, CJK characters by    *)
(* their pinyin reading (e.g. "mao" for the first character of the         *)
(* keyword at app.py:89).                                                  *)
(***************************************************************************)
EXTENDS Integers, Sequences, FiniteSets, TLC

VARIABLES
    LINE_CHANNEL_SECRET,        \* app.py:24, None or a secret
    LINE_CHANNEL_ACCESS_TOKEN,  \* app.py:25, None or a token
    pc,                         \* position of the webhook handler
    body,                       \* raw request body (app.py:121)
    x_line_signature,           \* header value or None (app.py:120)
    events,                     \* result of parser.parse (app.py:134)
    idx,                        \* position of the for loop (app.py:142), 1-based
    request,                    \* completion request in flight / last sent
    reply,                      \* app.py:162-171
    final_reply,                \* app.py:174
    response,                   \* what the handler returned to the HTTP caller
    log,                        \* outbound calls of the current request, in order
    user_msg,                   \* input of decide_response_params (pure-function spec)
    decided,                    \* its result
    text,                       \* input of truncate_text (pure-function spec)
    max_length,                 \* its ceiling
    truncated,                  \* truncate_text(text, max_length)
    truncated2                  \* truncate_text(truncated, max_length)

vars == << LINE_CHANNEL_SECRET, LINE_CHANNEL_ACCESS_TOKEN, pc, body,
           x_line_signature, events, idx, request, reply, final_reply,
           response, log, user_msg, decided, text, max_length, truncated,
           truncated2 >>

webhookVars == << LINE_CHANNEL_SECRET, LINE_CHANNEL_ACCESS_TOKEN, pc, body,
                  x_line_signature, events, idx, request, reply, final_reply,
                  response, log >>

decideVars == << user_msg, decided >>

truncVars == << text, max_length, truncated, truncated2 >>

None == "None"

(***************************************************************************)
(* Bounds of the model.                                                    *)
(***************************************************************************)
MaxEvents == 2     \* events per webhook payload
ExtraLen == 2      \* how far the long completion text exceeds the ceiling
MaxPad == 152      \* filler characters around the snippet of a user message
MaxTextLen == 6    \* length of the texts given to truncate_text
MaxCeiling == 7    \* largest ceiling given to truncate_text

(***************************************************************************)
(* Python helpers.                                                         *)
(***************************************************************************)
Max(a, b) == IF a >= b THEN a ELSE b

Min(a, b) == IF a <= b THEN a ELSE b

\* s[:k] for a Python str: a negative k counts from the end.
SlicePrefix(s, k) ==
    IF k >= 0 THEN SubSeq(s, 1, Min(k, Len(s)))
              ELSE SubSeq(s, 1, Max(Len(s) + k, 0))

\* needle in haystack, for Python str.
Contains(haystack, needle) ==
    \E i \in 1..(Len(haystack) - Len(needle) + 1) :
        SubSeq(haystack, i, i + Len(needle) - 1) = needle

Fill(n, c) == [k \in 1..n |-> c]

(***************************************************************************)
(* truncate_text, app.py:80-83.                                            *)
(***************************************************************************)
DEFAULT_MAX_LENGTH == 4800

Ellipsis == << ".", ".", "." >>

truncate_text(t, m) ==
    IF Len(t) <= m THEN t ELSE SlicePrefix(t, m - 3) \o Ellipsis

(***************************************************************************)
(* decide_response_params, app.py:85-106.                                  *)
(***************************************************************************)
system_keywords ==
    << << "mao", "zhan" >>,                  \* felt (panel)
       << "pen", "zu" >>,                    \* pot module
       << "bu", "dai" >>,                    \* fabric pocket
       << "xi", "tong" >>,                   \* system
       << "gong", "cheng" >>,                \* engineering
       << "jie", "gou" >>,                   \* structure
       << "guan", "gai", "xi", "tong" >>,    \* irrigation system
       << "zi", "dong", "guan", "gai" >> >>  \* automatic irrigation

has_system_keyword(msg) ==
    \E k \in 1..Len(system_keywords) : Contains(msg, system_keywords[k])

InstrVeryShort == "simple question: answer in 1~2 sentences, no system details"
InstrShort == "answer in 2~3 sentences, practical advice, no system taxonomy"
InstrKeyword == "asked about systems: explain appropriately, do not over-expand"
InstrMedium == "expand appropriately, do not ramble"
InstrLong == "user gave much information: answer in detail"

decide_response_params_length_first(msg) ==
    LET length == Len(msg)
        kw == has_system_keyword(msg)
    IN  IF length < 20 THEN << 150, InstrVeryShort >>
        ELSE IF length < 50 /\ ~kw THEN << 300, InstrShort >>
        ELSE IF kw THEN << 600, InstrKeyword >>
        ELSE IF length < 150 THEN << 500, InstrMedium >>
        ELSE << 800, InstrLong >>

decide_response_params_no_medium(msg) ==
    LET length == Len(msg)
        kw == has_system_keyword(msg)
    IN  IF length < 20 /\ ~kw THEN << 150, InstrVeryShort >>
        ELSE IF length < 50 /\ ~kw THEN << 300, InstrShort >>
        ELSE IF kw THEN << 600, InstrKeyword >>
        ELSE IF length <= 150 THEN << 500, InstrMedium >>
        ELSE << 800, InstrLong >>

decide_response_params(msg) ==
    LET length == Len(msg)
        kw == has_system_keyword(msg)
    IN  IF length < 20 /\ ~kw THEN << 150, InstrVeryShort >>
        ELSE IF length < 50 /\ ~kw THEN << 300, InstrShort >>
        ELSE IF kw THEN << 600, InstrKeyword >>
        ELSE IF length < 150 THEN << 500, InstrMedium >>
        ELSE << 800, InstrLong >>


(***************************************************************************)
(* Exceptions.  The classes are those imported at app.py:9 and app.py:11   *)
(* and the built-in ones the handler's statements can raise; an except     *)
(* clause catches an exception whose class is the clause's class or one of *)
(* its subclasses, and the first matching clause wins.                     *)
(***************************************************************************)
Bases(cls) ==
    CASE cls = "APITimeoutError" ->
            { "APITimeoutError", "APIConnectionError", "APIError", "Exception" }
      [] cls = "APIStatusError" -> { "APIStatusError", "APIError", "Exception" }
      [] cls = "RuntimeError" -> { "RuntimeError", "Exception" }
      [] cls = "IndexError" -> { "IndexError", "LookupError", "Exception" }
      [] cls = "TypeError" -> { "TypeError", "Exception" }
      [] cls = "UnicodeDecodeError" -> { "UnicodeDecodeError", "ValueError", "Exception" }
      [] cls = "JSONDecodeError" -> { "JSONDecodeError", "ValueError", "Exception" }
      [] cls = "InvalidSignatureError" -> { "InvalidSignatureError", "BaseError", "Exception" }
      [] cls = "LineBotApiError" -> { "LineBotApiError", "BaseError", "Exception" }
      [] OTHER -> { cls }

\* Index of the first except clause that catches cls, 0 when none does.
FirstHandler(cls, clauses) ==
    LET S == { k \in 1..Len(clauses) : clauses[k] \in Bases(cls) }
    IN  IF S = {} THEN 0 ELSE CHOOSE k \in S : \A j \in S : k <= j

(***************************************************************************)
(* verify_signature, app.py:70-78.  HMAC-SHA256 followed by base64 is      *)
(* modelled as an ideal keyed digest: two digests are equal exactly when   *)
(* key and message are.                                                    *)
(***************************************************************************)
Truthy(v) == v # None /\ v # ""

Digest(key, msg) == [key |-> key, msg |-> msg]

\* The X-Line-Signature header: absent (None) or some base64 text.
Header(d) == [present |-> TRUE, value |-> d]

verify_signature_any_header(secret, b, signature) ==
    IF ~Truthy(secret) THEN FALSE
    ELSE signature.present

verify_signature(secret, b, signature) ==
    IF ~Truthy(secret) THEN FALSE
    ELSE signature.present /\ Digest(secret, b) = signature.value

\* app.py:39-40
line_bot_api == IF Truthy(LINE_CHANNEL_ACCESS_TOKEN) THEN "LineBotApi" ELSE None

parser == IF Truthy(LINE_CHANNEL_SECRET) THEN "WebhookParser" ELSE None

(***************************************************************************)
(* The canned replies, app.py:165, 168, 171.                               *)
(***************************************************************************)
\* "ai ya, DeepSeek jin tian shui zhao le, ni zai wen yi ci kan kan?"
TIMEOUT_REPLY ==
    << "ai", "ya", ",", "D", "e", "e", "p", "S", "e", "e", "k", " ",
       "jin", "tian", "shui", "zhao", "le", ",",
       "ni", "zai", "wen", "yi", "ci", "kan", "kan", "?" >>

\* "DeepSeek chu cuo le:" followed by e.message
API_ERROR_PREFIX ==
    << "D", "e", "e", "p", "S", "e", "e", "k", " ", "chu", "cuo", "le", ":" >>

\* "lin bei nao dai tu ran da jie, deng yi xia zai wen la~"
GENERIC_REPLY ==
    << "lin", "bei", "nao", "dai", "tu", "ran", "da", "jie", ",",
       "deng", "yi", "xia", "zai", "wen", "la", "~" >>

(***************************************************************************)
(* Inputs of the webhook: request bodies, signature headers, and what the  *)
(* two remote services may answer.                                         *)
(***************************************************************************)
\* the short question of the spec's example ("duo shao qian", how much)
MsgShort == << "duo", "shao", "qian" >>

\* a question naming a system keyword ("mao zhan hao ma")
MsgKeyword == << "mao", "zhan", "hao", "ma" >>

TextEvent(uid, msg) ==
    [type |-> "message", message_type |-> "text", text |-> msg, user_id |-> uid]

ImageEvent(uid) ==
    [type |-> "message", message_type |-> "image", text |-> << >>, user_id |-> uid]

FollowEvent(uid) ==
    [type |-> "follow", message_type |-> None, text |-> << >>, user_id |-> uid]

EventKinds ==
    { TextEvent("U1", MsgShort), TextEvent("U2", MsgKeyword),
      ImageEvent("U3"), FollowEvent("U4") }

EventLists == UNION { [1..n -> EventKinds] : n \in 0..MaxEvents }

\* bytes that are not UTF-8
BadBytes == [decodable |-> FALSE, json |-> FALSE, events |-> << >>]

\* UTF-8 text that is not a webhook JSON document
BadJson == [decodable |-> TRUE, json |-> FALSE, events |-> << >>]

Payload(evs) == [decodable |-> TRUE, json |-> TRUE, events |-> evs]

Bodies == { BadBytes, BadJson } \cup { Payload(evs) : evs \in EventLists }

HeaderAbsent == [present |-> FALSE, value |-> Digest("", BadBytes)]

Headers(b) ==
    { HeaderAbsent, Header(Digest("", b)), Header(Digest("secret", b)),
      Header(Digest("wrong", b)), Header(Digest("secret", BadBytes)) }

\* Optional[str]: the content of a completion choice
Str(s) == [none |-> FALSE, s |-> s]

NoneStr == [none |-> TRUE, s |-> << >>]

Raises(cls, msg) ==
    [kind |-> "raise", cls |-> cls, message |-> msg, choices |-> << >>]

Returns(choices) ==
    [kind |-> "return", cls |-> None, message |-> << >>, choices |-> choices]

ShortAnswer == << "h", "a", "o" >>

LongAnswer == Fill(DEFAULT_MAX_LENGTH + ExtraLen, "x")

\* What client.chat.completions.create can do, app.py:153-161.
CompletionOutcomes ==
    { Raises("APITimeoutError", << "t", "/", "o" >>),
      Raises("APIStatusError", << "4", "2", "9" >>),
      Raises("RuntimeError", << >>),
      Returns(<< >>),
      Returns(<< NoneStr >>),
      Returns(<< Str(ShortAnswer) >>),
      Returns(<< Str(LongAnswer) >>) }

\* What line_bot_api.push_message can do, app.py:178-181.
PushOutcomes == { "ok", "LineBotApiError", "RuntimeError" }

(***************************************************************************)
(* The try blocks of the handler.  A try body yields the exception it      *)
(* raised (None when it completed) and the values it assigned.             *)
(***************************************************************************)
\* app.py:133-134
ParseTry(secret, b, signature) ==
    IF ~b.decodable THEN [exc |-> "UnicodeDecodeError", events |-> << >>]
    ELSE IF ~(signature.present /\ Digest(secret, b) = signature.value)
         THEN [exc |-> "InvalidSignatureError", events |-> << >>]
    ELSE IF ~b.json THEN [exc |-> "JSONDecodeError", events |-> << >>]
    ELSE [exc |-> None, events |-> b.events]

\* app.py:135, 138
PARSE_EXCEPT == << "InvalidSignatureError", "Exception" >>

\* app.py:153-163
CompletionTry(o) ==
    IF o.kind = "raise" THEN [exc |-> o.cls, message |-> o.message, reply |-> << >>]
    ELSE IF Len(o.choices) = 0
         THEN [exc |-> "IndexError", message |-> << >>, reply |-> << >>]
    ELSE IF o.choices[1].none
         THEN [exc |-> "TypeError", message |-> << >>, reply |-> << >>]
    ELSE [exc |-> None, message |-> << >>, reply |-> o.choices[1].s]

COMPLETION_EXCEPT_API_FIRST == << "APIError", "APITimeoutError", "Exception" >>

COMPLETION_EXCEPT_NO_CATCH_ALL == << "APITimeoutError", "APIError" >>

\* app.py:164, 167, 170
COMPLETION_EXCEPT == << "APITimeoutError", "APIError", "Exception" >>

\* the bodies of the except clauses, app.py:165, 168, 171
CompletionHandler(clause, r) ==
    CASE clause = "APITimeoutError" -> TIMEOUT_REPLY
      [] clause = "APIError" -> API_ERROR_PREFIX \o r.message
      [] OTHER -> GENERIC_REPLY

\* app.py:152-172: the reply after the try statement, or the exception
\* that leaves it.
CompletionReply(o) ==
    LET r == CompletionTry(o)
        h == FirstHandler(r.exc, COMPLETION_EXCEPT)
    IN  IF r.exc = None THEN [uncaught |-> None, reply |-> r.reply]
        ELSE IF h = 0 THEN [uncaught |-> r.exc, reply |-> << >>]
        ELSE [uncaught |-> None,
              reply |-> CompletionHandler(COMPLETION_EXCEPT[h], r)]

PUSH_EXCEPT_LINE_ONLY == << "LineBotApiError" >>

\* app.py:183, 185
PUSH_EXCEPT == << "LineBotApiError", "Exception" >>

\* app.py:177-186: the exception that leaves the try statement, or None
PushUncaught(o) ==
    IF o = "ok" \/ FirstHandler(o, PUSH_EXCEPT) # 0 THEN None ELSE o

LogEntry(op, i, to, t, info) ==
    [op |-> op, i |-> i, to |-> to, text |-> t, info |-> info]

\* app.py:159
Temperature10(max_tokens) == IF max_tokens < 400 THEN 7 ELSE 8

NoRequest == [user_msg |-> << >>, max_tokens |-> 0, instruction |-> "", temperature10 |-> 0]

(***************************************************************************)
(* The webhook handler, app.py:119-188, one action per step between two    *)
(* points where it waits for the outside world.                            *)
(***************************************************************************)
PureIdle ==
    /\ user_msg = << >> /\ decided = << >>
    /\ text = << >> /\ max_length = 0 /\ truncated = << >> /\ truncated2 = << >>

Init ==
    /\ LINE_CHANNEL_SECRET \in { None, "", "secret" }
    /\ LINE_CHANNEL_ACCESS_TOKEN \in { None, "token" }
    /\ pc = "idle"
    /\ body = BadBytes
    /\ x_line_signature = HeaderAbsent
    /\ events = << >>
    /\ idx = 0
    /\ request = NoRequest
    /\ reply = << >>
    /\ final_reply = << >>
    /\ response = None
    /\ log = << >>
    /\ PureIdle

\* The handler returns at one of its return statements.
Return(r) ==
    /\ response' = r
    /\ pc' = "done"

\* An exception leaves the handler: the framework answers with an error.
Propagate(exc) ==
    /\ response' = "500 Internal Server Error"
    /\ pc' = "done"

\* app.py:120-122: a request arrives and its body is read.  After this
\* await the handler only makes blocking calls, so it runs to its return
\* without another request's handler in between, and requests share no
\* mutable state: one request at a time is modelled.
Receive ==
    /\ pc = "idle"
    /\ \E b \in Bodies : \E h \in Headers(b) :
        /\ body' = b
        /\ x_line_signature' = h
    /\ pc' = "verify"
    /\ events' = << >>
    /\ idx' = 0
    /\ request' = NoRequest
    /\ reply' = << >>
    /\ final_reply' = << >>
    /\ response' = None
    /\ log' = << >>
    /\ UNCHANGED << LINE_CHANNEL_SECRET, LINE_CHANNEL_ACCESS_TOKEN >>
    /\ UNCHANGED << decideVars, truncVars >>

\* app.py:124-126
VerifySignature ==
    /\ pc = "verify"
    /\ IF ~verify_signature(LINE_CHANNEL_SECRET, body, x_line_signature)
       THEN Return("OK")
       ELSE pc' = "credentials" /\ UNCHANGED response
    /\ UNCHANGED << LINE_CHANNEL_SECRET, LINE_CHANNEL_ACCESS_TOKEN, body,
                    x_line_signature, events, idx, request, reply,
                    final_reply, log >>
    /\ UNCHANGED << decideVars, truncVars >>

\* app.py:128-130
CheckCredentials ==
    /\ pc = "credentials"
    /\ IF ~Truthy(parser) \/ ~Truthy(line_bot_api)
       THEN Return("OK")
       ELSE pc' = "parse" /\ UNCHANGED response
    /\ UNCHANGED << LINE_CHANNEL_SECRET, LINE_CHANNEL_ACCESS_TOKEN, body,
                    x_line_signature, events, idx, request, reply,
                    final_reply, log >>
    /\ UNCHANGED << decideVars, truncVars >>

\* app.py:132-140
ParseEvents ==
    /\ pc = "parse"
    /\ LET r == ParseTry(LINE_CHANNEL_SECRET, body, x_line_signature)
       IN  IF r.exc = None
           THEN /\ events' = r.events
                /\ idx' = 1
                /\ pc' = "loop"
                /\ UNCHANGED response
           ELSE /\ IF FirstHandler(r.exc, PARSE_EXCEPT) # 0
                   THEN Return("OK")
                   ELSE Propagate(r.exc)
                /\ UNCHANGED << events, idx >>
    /\ UNCHANGED << LINE_CHANNEL_SECRET, LINE_CHANNEL_ACCESS_TOKEN, body,
                    x_line_signature, request, reply, final_reply, log >>
    /\ UNCHANGED << decideVars, truncVars >>

LoopReturnsAfterFirst(i, evs) == i > 1 \/ i > Len(evs)

\* app.py:142, 188: the for loop is over and the statement after it runs.
LoopExhausted(i, evs) == i > Len(evs)

IsAnyMessageEvent(e) == e.type = "message"

\* event.message is a TextMessage inside a MessageEvent, app.py:143
IsTextMessageEvent(e) == e.type = "message" /\ e.message_type = "text"

\* app.py:142-161 and 188: the head of the for loop.  After the last event
\* the handler returns; an event that is no text message is passed over; for
\* a text message the completion request is built and sent.
NextEvent ==
    /\ pc = "loop"
    /\ IF LoopExhausted(idx, events)
       THEN /\ Return("OK")
            /\ UNCHANGED << idx, request, log >>
       ELSE IF ~IsTextMessageEvent(events[idx])
       THEN /\ idx' = idx + 1
            /\ UNCHANGED << pc, response, request, log >>
       ELSE LET msg == events[idx].text
                params == decide_response_params(msg)
            IN  /\ request' = [user_msg |-> msg,
                               max_tokens |-> params[1],
                               instruction |-> params[2],
                               temperature10 |-> Temperature10(params[1])]
                /\ log' = Append(log, LogEntry("create", idx, None, msg, "call"))
                /\ pc' = "completion"
                /\ UNCHANGED << idx, response >>
    /\ UNCHANGED << LINE_CHANNEL_SECRET, LINE_CHANNEL_ACCESS_TOKEN, body,
                    x_line_signature, events, reply, final_reply >>
    /\ UNCHANGED << decideVars, truncVars >>

\* app.py:162-181: the completion call ends, the reply is chosen and
\* truncated, and the push is sent to the event's user.
CompletionReturns ==
    /\ pc = "completion"
    /\ \E o \in CompletionOutcomes :
        LET r == CompletionReply(o)
            ended == Append(log, LogEntry("create_end", idx, None, << >>,
                                          CompletionTry(o).exc))
            final == truncate_text(r.reply, DEFAULT_MAX_LENGTH)
        IN  IF r.uncaught # None
            THEN /\ Propagate(r.uncaught)
                 /\ log' = ended
                 /\ UNCHANGED << reply, final_reply >>
            ELSE /\ reply' = r.reply
                 /\ final_reply' = final
                 /\ log' = Append(ended, LogEntry("push", idx,
                                      events[idx].user_id, final, "call"))
                 /\ pc' = "push"
                 /\ UNCHANGED response
    /\ UNCHANGED << LINE_CHANNEL_SECRET, LINE_CHANNEL_ACCESS_TOKEN, body,
                    x_line_signature, events, idx, request >>
    /\ UNCHANGED << decideVars, truncVars >>

\* app.py:182-186: the push call ends; the loop goes on to the next event.
PushReturns ==
    /\ pc = "push"
    /\ \E o \in PushOutcomes :
        /\ log' = Append(log, LogEntry("push_end", idx, None, << >>, o))
        /\ IF PushUncaught(o) # None
           THEN /\ Propagate(o)
                /\ UNCHANGED idx
           ELSE /\ idx' = idx + 1
                /\ pc' = "loop"
                /\ UNCHANGED response
    /\ UNCHANGED << LINE_CHANNEL_SECRET, LINE_CHANNEL_ACCESS_TOKEN, body,
                    x_line_signature, events, request, reply, final_reply >>
    /\ UNCHANGED << decideVars, truncVars >>

\* The response has been sent and the handler's locals are gone; the server
\* waits for the next request.
Respond ==
    /\ pc = "done"
    /\ pc' = "idle"
    /\ body' = BadBytes
    /\ x_line_signature' = HeaderAbsent
    /\ events' = << >>
    /\ idx' = 0
    /\ request' = NoRequest
    /\ reply' = << >>
    /\ final_reply' = << >>
    /\ response' = None
    /\ log' = << >>
    /\ UNCHANGED << LINE_CHANNEL_SECRET, LINE_CHANNEL_ACCESS_TOKEN >>
    /\ UNCHANGED << decideVars, truncVars >>

Next ==
    \/ Receive
    \/ VerifySignature
    \/ CheckCredentials
    \/ ParseEvents
    \/ NextEvent
    \/ CompletionReturns
    \/ PushReturns
    \/ Respond

Spec == Init /\ [][Next]_vars

(***************************************************************************)
(* decide_response_params applied to one message.  The message is a        *)
(* snippet with filler before and after it, so that every length tier is   *)
(* met with and without a keyword.                                         *)
(***************************************************************************)
Snippets ==
    { system_keywords[k] : k \in 1..Len(system_keywords) }
    \cup { << >>, MsgShort, << "mao" >>, << "zhan", "mao" >>,
           << "xi", "x", "tong" >>, << "guan", "gai" >>,
           << "zi", "dong" >> }

Messages ==
    { Fill(p, "x") \o sn \o Fill(q, "x") :
        p \in 0..MaxPad, sn \in Snippets, q \in 0..1 }

WebhookIdle ==
    /\ LINE_CHANNEL_SECRET = "secret"
    /\ LINE_CHANNEL_ACCESS_TOKEN = "token"
    /\ body = BadBytes
    /\ x_line_signature = HeaderAbsent
    /\ events = << >>
    /\ idx = 0
    /\ request = NoRequest
    /\ reply = << >>
    /\ final_reply = << >>
    /\ response = None
    /\ log = << >>

InitDecide ==
    /\ WebhookIdle
    /\ pc = "decide"
    /\ user_msg \in Messages
    /\ decided = << >>
    /\ text = << >> /\ max_length = 0 /\ truncated = << >> /\ truncated2 = << >>

\* app.py:149
Decide ==
    /\ pc = "decide"
    /\ decided' = decide_response_params(user_msg)
    /\ pc' = "decided"
    /\ UNCHANGED << LINE_CHANNEL_SECRET, LINE_CHANNEL_ACCESS_TOKEN, body,
                    x_line_signature, events, idx, request, reply,
                    final_reply, response, log >>
    /\ UNCHANGED << user_msg, truncVars >>

NextDecide == Decide

SpecDecide == InitDecide /\ [][NextDecide]_vars

(***************************************************************************)
(* truncate_text applied to one text, and again to its result.             *)
(***************************************************************************)
Chars == { "a", "." }

Texts == UNION { [1..n -> Chars] : n \in 0..MaxTextLen }

InitTruncate ==
    /\ WebhookIdle
    /\ pc = "truncate"
    /\ text \in Texts
    /\ max_length \in 0..MaxCeiling
    /\ truncated = << >>
    /\ truncated2 = << >>
    /\ user_msg = << >> /\ decided = << >>

\* app.py:174, applied twice
Truncate ==
    /\ pc = "truncate"
    /\ truncated' = truncate_text(text, max_length)
    /\ truncated2' = truncate_text(truncate_text(text, max_length), max_length)
    /\ pc' = "truncated"
    /\ UNCHANGED << LINE_CHANNEL_SECRET, LINE_CHANNEL_ACCESS_TOKEN, body,
                    x_line_signature, events, idx, request, reply,
                    final_reply, response, log >>
    /\ UNCHANGED << text, max_length, decideVars >>

NextTruncate == Truncate

SpecTruncate == InitTruncate /\ [][NextTruncate]_vars

(***************************************************************************)
(* Properties.                                                             *)
(***************************************************************************)
\* Positions of the log entries with operation op for event i.
Entries(op, i) == { k \in 1..Len(log) : log[k].op = op /\ log[k].i = i }

\* The request carries the digest of its body under the configured secret.
SignatureMatches ==
    /\ LINE_CHANNEL_SECRET \notin { None, "" }
    /\ x_line_signature.present
    /\ x_line_signature.value = Digest(LINE_CHANNEL_SECRET, body)

\* Validly signed, parseable payload, messaging credentials configured.
Processable ==
    /\ SignatureMatches
    /\ LINE_CHANNEL_ACCESS_TOKEN \notin { None, "" }
    /\ body.decodable
    /\ body.json

TextEventAt(evs, i) ==
    evs[i].type = "message" /\ evs[i].message_type = "text"

\* C1: every webhook request ends with the response "OK", whatever failed
\* inside: no path of the handler ends in an exception or another response.
C1_AlwaysRespondsOK == pc = "done" => response = "OK"

\* a request that ended after a response without choices and a push that
\* failed outside the messaging API's own error class
C1_Witness ==
    /\ pc = "done"
    /\ response = "OK"
    /\ \E k \in 1..Len(log) : log[k].op = "create_end" /\ log[k].info = "IndexError"
    /\ \E k \in 1..Len(log) : log[k].op = "push_end" /\ log[k].info = "RuntimeError"

\* C2: when the signature check fails (header differs from the digest,
\* header absent, or no secret configured) the handler answers "OK" without
\* processing: it never gets past the check, nothing is parsed, no
\* completion is requested and nothing is pushed.
C2_BadSignatureNotProcessed ==
    ~SignatureMatches =>
        /\ pc \in { "idle", "verify", "done" }
        /\ events = << >>
        /\ log = << >>
        /\ pc = "done" => response = "OK"

\* a request with a text event, a secret configured and a header signed
\* with another secret, answered
C2_Witness ==
    /\ pc = "done"
    /\ response = "OK"
    /\ LINE_CHANNEL_SECRET = "secret"
    /\ x_line_signature = Header(Digest("wrong", body))
    /\ body.json
    /\ \E i \in 1..Len(body.events) : TextEventAt(body.events, i)

\* C3: a completion call that ends in a provider timeout is followed by a
\* push, to that event's user, of exactly the timeout apology, and the
\* request still ends with "OK".
C3_TimeoutReply ==
    \A k \in 1..Len(log) :
        (log[k].op = "create_end" /\ log[k].info = "APITimeoutError") =>
            /\ k < Len(log)
            /\ log[k + 1].op = "push"
            /\ log[k + 1].i = log[k].i
            /\ log[k + 1].to = events[log[k].i].user_id
            /\ log[k + 1].text = TIMEOUT_REPLY
            /\ log[k + 1].text # GENERIC_REPLY
            /\ SubSeq(log[k + 1].text, 1, Len(API_ERROR_PREFIX)) # API_ERROR_PREFIX
            /\ pc = "done" => response = "OK"

\* a request whose completion call timed out has been answered
C3_Witness ==
    /\ pc = "done"
    /\ response = "OK"
    /\ \E k \in 1..Len(log) :
        log[k].op = "create_end" /\ log[k].info = "APITimeoutError"

\* C4: completion calls and pushes occur only for text message events; an
\* event that is not a text message causes neither.
C4_OnlyTextEvents ==
    /\ \A k \in 1..Len(log) : TextEventAt(events, log[k].i)
    /\ \A i \in 1..Len(events) :
        ~TextEventAt(events, i) =>
            Entries("create", i) = {} /\ Entries("push", i) = {}

\* a payload with an image message followed by a text message, answered
\* after the text message was pushed
C4_Witness ==
    /\ pc = "done"
    /\ Len(events) = 2
    /\ events[1].message_type = "image"
    /\ Entries("create", 1) = {}
    /\ Entries("push", 2) # {}

\* C5: a text containing a configured keyword gets the keyword tier
\* (600 tokens and the keyword instruction) whatever its length.
C5_KeywordTier ==
    (pc = "decided" /\ has_system_keyword(user_msg)) =>
        decided = << 600, InstrKeyword >>

\* a text shorter than 20 characters with a keyword has been classified
C5_Witness ==
    /\ pc = "decided"
    /\ has_system_keyword(user_msg)
    /\ Len(user_msg) < 20

\* the same for a text of 150 characters or more
C5_WitnessLong ==
    /\ pc = "decided"
    /\ has_system_keyword(user_msg)
    /\ Len(user_msg) >= 150

\* C6: a text without keyword is classified by its length alone: below 20
\* gives 150 tokens and the 1~2 sentence instruction, below 50 gives 300,
\* below 150 gives 500, anything longer 800; with the keyword tier these
\* are the five outcomes and every text gets one of them.
C6_LengthTiers ==
    pc = "decided" =>
        /\ decided \in { << 150, InstrVeryShort >>, << 300, InstrShort >>,
                         << 600, InstrKeyword >>, << 500, InstrMedium >>,
                         << 800, InstrLong >> }
        /\ ~has_system_keyword(user_msg) =>
            /\ Len(user_msg) < 20 => decided = << 150, InstrVeryShort >>
            /\ (20 <= Len(user_msg) /\ Len(user_msg) < 50) =>
                    decided = << 300, InstrShort >>
            /\ (50 <= Len(user_msg) /\ Len(user_msg) < 150) =>
                    decided = << 500, InstrMedium >>
            /\ Len(user_msg) >= 150 => decided = << 800, InstrLong >>

\* a text of exactly 150 characters without keyword has been classified
C6_Witness ==
    /\ pc = "decided"
    /\ ~has_system_keyword(user_msg)
    /\ Len(user_msg) = 150
    /\ decided[1] = 800

\* the spec's example: the three-character question gets the smallest tier
C6_WitnessShort ==
    /\ pc = "decided"
    /\ user_msg = MsgShort
    /\ decided = << 150, InstrVeryShort >>

\* C7: for any text and any ceiling, the truncated text is never longer
\* than the ceiling, and a text within the ceiling is returned unchanged.
C7_NeverExceedsCeiling ==
    pc = "truncated" =>
        /\ Len(truncated) <= max_length
        /\ Len(text) <= max_length => truncated = text

\* what the handler itself relies on: every text handed to the push call is
\* at most the default ceiling long
PushedWithinDefaultCeiling ==
    \A k \in 1..Len(log) :
        log[k].op = "push" => Len(log[k].text) <= DEFAULT_MAX_LENGTH

\* C8: truncating a truncated text changes nothing, for any text and any
\* ceiling.
C8_Idempotent == pc = "truncated" => truncated2 = truncated

\* truncation is idempotent and bounded for every ceiling of 3 or more
TruncateFromThree ==
    (pc = "truncated" /\ max_length >= 3) =>
        Len(truncated) <= max_length /\ truncated2 = truncated

\* C9: the events of a payload are handled one after the other in payload
\* order: the log is a sequence of groups (completion call, its end, push,
\* its end), each group for one event, the events of successive groups in
\* increasing order; and the response is given only when every text event
\* of the payload has had its group.
C9_Sequential ==
    /\ \A k \in 1..Len(log) :
        /\ log[k].op = CASE k % 4 = 1 -> "create"
                         [] k % 4 = 2 -> "create_end"
                         [] k % 4 = 3 -> "push"
                         [] OTHER -> "push_end"
        /\ k % 4 # 1 => log[k].i = log[k - 1].i
        /\ (k % 4 = 1 /\ k > 1) => log[k].i > log[k - 1].i
    /\ pc \in { "loop", "completion", "push" } => response = None
    /\ (response # None /\ Processable) =>
        /\ Len(log) % 4 = 0
        /\ \A i \in 1..Len(body.events) :
            TextEventAt(body.events, i) => Entries("push_end", i) # {}

\* a payload of two text events has been answered
C9_Witness ==
    /\ pc = "done"
    /\ response = "OK"
    /\ Len(log) = 8
    /\ log[4].i = 1
    /\ log[5].i = 2

\* C10: for a validly signed, parseable payload with credentials configured,
\* every text event causes exactly one completion request and then exactly
\* one push attempt, addressed to the event's own user; this also after a
\* failed completion or a failed push, for the event itself and for the
\* events after it.
C10_OnePushPerTextEvent ==
    /\ \A i \in 1..Len(events) :
        /\ Cardinality(Entries("create", i)) <= 1
        /\ Cardinality(Entries("push", i)) <= 1
        /\ \A k \in Entries("push", i) :
            /\ log[k].to = events[i].user_id
            /\ \E j \in Entries("create", i) : j < k
    /\ (pc = "done" /\ Processable) =>
        /\ events = body.events
        /\ \A i \in 1..Len(events) :
            TextEventAt(events, i) =>
                /\ Cardinality(Entries("create", i)) = 1
                /\ Cardinality(Entries("push", i)) = 1

\* two text events of different users; the first one's completion and push
\* both failed, the second one was still pushed to its own user
C10_Witness ==
    /\ pc = "done"
    /\ Len(log) = 8
    /\ log[2].info = "APIStatusError"
    /\ log[4].info = "LineBotApiError"
    /\ log[3].to = "U1"
    /\ log[7].to = "U2"

====
